---- MODULE Spec2Model ----
(***************************************************************************)
(* Model of server.js: an Express gateway in front of one S3 bucket.       *)
(* Every route handler is cut at its `await` points: the synchronous part  *)
(* up to the storage call, the storage service acting on the call, and the *)
(* continuation that writes the HTTP response.                             *)
(***************************************************************************)
EXTENDS Integers, Sequences, FiniteSets, TLC

\* ---------------------------------------------------------------- bounds
MaxRequests == 3      \* requests started in one behaviour
MaxClock == 2         \* distinct Date.now() readings
MaxInFlight == 2      \* requests the runtime interleaves at a time

\* ------------------------------------------------------ program constants
FILE_SIZE_LIMIT == 10 * 1024 * 1024
MAX_KEYS == 1000
DEFAULT_EXPIRES == 3600

Slots == 1..MaxInFlight

\* ------------------------------------------------------------ input data
\* A buffer of `len` bytes, all equal to `fill`.
Buffer(fill, len) == [fill |-> fill, len |-> len]
NoBuffer == [fill |-> "", len |-> -1]

NoFile == [originalname |-> "", buffer |-> NoBuffer, mimetype |-> ""]
File(n, b, m) == [originalname |-> n, buffer |-> b, mimetype |-> m]

Names == {"a.txt"}

\* The multipart bodies a client sends in field `file` (NoFile: no field).
Files ==
  { File("a.txt", Buffer("x", 1), "text/plain"),
    File("a.txt", Buffer("y", 2), "image/png"),
    File("a.txt", Buffer("z", FILE_SIZE_LIMIT), "text/plain"),
    File("a.txt", Buffer("z", FILE_SIZE_LIMIT + 1), "text/plain") }

\* `${Date.now()}-${req.file.originalname}`: the timestamp is all digits, so
\* the first "-" splits the string and the pair determines it.
FileKey(now, originalname) == <<now, originalname>>
NoKey == <<0, "">>
Keys == {FileKey(t, n) : t \in 1..MaxClock, n \in Names}

\* S3 lists keys in byte order of the key string; timestamps of one epoch
\* have the same number of digits, so the order is (timestamp, name).
NameRank(n) == CASE n = "a.txt" -> 1 [] OTHER -> 0
KeyLess(j, k) == j[1] < k[1] \/ (j[1] = k[1] /\ NameRank(j[2]) < NameRank(k[2]))

\* ------------------------------------------------------ parseInt(string)
\* Query strings are sequences of one-character strings.
NoQuery == <<"absent">>
Digits == {"0", "1", "2", "3", "4", "5", "6", "7", "8", "9"}
HexDigits == Digits \cup {"a", "b", "c", "d", "e", "f"}
DigitVal(c) ==
  CASE c = "0" -> 0 [] c = "1" -> 1 [] c = "2" -> 2 [] c = "3" -> 3
    [] c = "4" -> 4 [] c = "5" -> 5 [] c = "6" -> 6 [] c = "7" -> 7
    [] c = "8" -> 8 [] c = "9" -> 9 [] c = "a" -> 10 [] c = "b" -> 11
    [] c = "c" -> 12 [] c = "d" -> 13 [] c = "e" -> 14 [] c = "f" -> 15
    [] OTHER -> 0

NaN == [nan |-> TRUE, n |-> 0]
Num(n) == [nan |-> FALSE, n |-> n]

RECURSIVE TrimLeft(_)
TrimLeft(s) == IF s # <<>> /\ Head(s) = " " THEN TrimLeft(Tail(s)) ELSE s

\* Longest prefix of s made of digits of the radix.
RECURSIVE DigitPrefix(_, _)
DigitPrefix(s, ds) ==
  IF s # <<>> /\ Head(s) \in ds THEN <<Head(s)>> \o DigitPrefix(Tail(s), ds) ELSE <<>>

RECURSIVE ToNumber(_, _, _)
ToNumber(s, radix, acc) ==
  IF s = <<>> THEN acc ELSE ToNumber(Tail(s), radix, acc * radix + DigitVal(Head(s)))

ParseInt(q) ==
  IF q = NoQuery THEN NaN
  ELSE
    LET t == TrimLeft(q)
        neg == t # <<>> /\ Head(t) = "-"
        u == IF t # <<>> /\ Head(t) \in {"-", "+"} THEN Tail(t) ELSE t
        hex == Len(u) >= 2 /\ u[1] = "0" /\ u[2] \in {"x", "X"}
        v == IF hex THEN Tail(Tail(u)) ELSE u
        z == DigitPrefix(v, IF hex THEN HexDigits ELSE Digits)
        m == ToNumber(z, IF hex THEN 16 ELSE 10, 0)
    IN IF z = <<>> THEN NaN ELSE Num(IF neg THEN -m ELSE m)

\* `parseInt(req.query.expires) || 3600`: NaN and 0 are falsy.
Expiration(q) ==
  LET p == ParseInt(q) IN IF p.nan \/ p.n = 0 THEN DEFAULT_EXPIRES ELSE p.n

\* The values of ?expires= the clients send (NoQuery: parameter omitted).
Queries ==
  { NoQuery, <<"0">>, <<"6", "0">>, <<"-", "5">>, <<"7", "2", "0", "0">>,
    <<"a", "b">>, <<"1", "2", "h">>, <<"0", "x", "1", "0">>, <<>> }

\* The two kinds of request that take the two branches of the default.
CoreQueries == {NoQuery, <<"6", "0">>}

\* --------------------------------------------------------- storage model
Absent == [body |-> NoBuffer, contentType |-> "", lastModified |-> 0]
Object(b, ct, t) == [body |-> b, contentType |-> ct, lastModified |-> t]

ETag(b) == <<"md5", b.fill, b.len>>
NoETag == <<"md5", "", -1>>
Entry(k, o) ==
  [key |-> k, lastModified |-> o.lastModified, size |-> o.body.len, etag |-> ETag(o.body)]

Message(code) ==
  CASE code = "NetworkingError" -> "connect ETIMEDOUT"
    [] code = "NoSuchKey" -> "The specified key does not exist."
    [] code = "NotFound" -> "null"
    [] OTHER -> ""


\* Variant: multer configured without `limits`.
MulterNoLimit(len, atLimit) == FALSE

\* Does multer's `limits.fileSize` stop a file of `len` bytes?  Above the limit
\* always; at exactly the limit it depends on the multipart parser underneath
\* (`atLimit`), which server.js does not pin.
MulterRejects(len, atLimit) ==
  len > FILE_SIZE_LIMIT \/ (atLimit /\ len = FILE_SIZE_LIMIT)

\* ------------------------------------------------------------------ state
VARIABLES
  bucket,     \* S3 bucket: Keys -> object or Absent
  nOther,     \* objects already in the bucket whose keys sort before Keys
  clock,      \* Date.now()
  up,         \* the node process is running
  slot,       \* requests in flight
  resp,       \* the request that ended last, with its HTTP response
  started,    \* requests started so far
  acked,      \* history: bodies of the uploads answered with success, per key
  delAcked    \* history: a delete of the key was answered with success

vars == <<bucket, nOther, clock, up, slot, resp, started, acked, delAcked>>

NoExpect == [k \in Keys |-> {}]
NoUrl == <<"signed", NoKey, 0>>

Idle ==
  [ op |-> "idle", pc |-> "idle", key |-> NoKey, file |-> NoFile,
    query |-> NoQuery, expiration |-> 0,
    calls |-> 0,            \* storage calls issued
    err |-> "none",         \* error code of the storage call that failed
    status |-> 0,           \* HTTP status written (0: none)
    ended |-> FALSE,        \* the response was terminated
    details |-> "",         \* error message in the response body
    bytes |-> NoBuffer,     \* download: bytes written to the response
    etag |-> NoETag, files |-> {}, count |-> 0, url |-> NoUrl,
    timestamp |-> 0,
    expect |-> NoExpect,    \* history: `acked` when the request started
    existed |-> FALSE,      \* history: the key was there when the delete arrived
    fresh |-> FALSE ]       \* history: no conflicting storage effect since

NoResp == Idle

Present(b) == {k \in Keys : b[k] # Absent}

Init ==
  /\ bucket = [k \in Keys |-> Absent]
  /\ nOther \in {0, MAX_KEYS - 1}
  /\ clock = 1
  /\ up = TRUE
  /\ slot = [s \in Slots |-> Idle]
  /\ resp = NoResp
  /\ started = 0
  /\ acked = NoExpect
  /\ delAcked = [k \in Keys |-> FALSE]

\* A request is taken by the lowest free slot.
CanStart(s) ==
  /\ up
  /\ started < MaxRequests
  /\ slot[s].op = "idle"
  /\ \A t \in Slots : t < s => slot[t].op # "idle"

Respond(r, status, details) ==
  [r EXCEPT !.pc = "done", !.status = status, !.ended = TRUE, !.details = details]

\* ------------------------------------------------------ POST /api/upload
\* Variant: the `!req.file` guard left out; `req.file.originalname` then throws
\* inside the try and the catch block answers.
NoFileUnchecked(r) == Respond(r, 500, "Cannot read properties of undefined")

\* `if (!req.file) return res.status(400).json({ error: 'No file provided' })`
NoFileResponse(r) == Respond(r, 400, "No file provided")

\* upload.single('file') and the handler up to `await s3.upload(...)`.
UploadHandler(s, f, atLimit) ==
  LET r == [Idle EXCEPT !.op = "upload", !.file = f] IN
  /\ CanStart(s)
  /\ started' = started + 1
  /\ IF f # NoFile /\ MulterRejects(f.buffer.len, atLimit)
     THEN \* MulterError goes to next(err): Express' default handler answers 500
          /\ resp' = Respond(r, 500, "File too large")
          /\ slot' = slot
     ELSE IF f = NoFile
     THEN /\ resp' = NoFileResponse(r)
          /\ slot' = slot
     ELSE /\ slot' = [slot EXCEPT ![s] =
                [r EXCEPT !.pc = "call", !.calls = 1,
                          !.key = FileKey(clock, f.originalname)]]
          /\ resp' = resp
  /\ UNCHANGED <<bucket, nOther, clock, up, acked, delAcked>>

\* `await call.promise()` inside try/catch: res.json(...) or status(500).
StorageStatus(err) == IF err = "none" THEN 200 ELSE 500

\* The put of key k took effect: in-flight deletes and downloads of k that
\* were ordered after a delete are no longer so.
AfterPut(r, k) == IF r.key = k /\ r.op \in {"delete", "download"} THEN [r EXCEPT !.fresh = FALSE] ELSE r

\* The delete of key k took effect: what was acknowledged for k is void.
AfterDelete(r, k) ==
  IF r.op = "idle" THEN r
  ELSE [r EXCEPT !.expect[k] = {},
                 !.fresh = IF r.op = "upload" /\ r.key = k THEN FALSE ELSE @]

\* The storage service performs (or fails) the put of s3.upload.
S3Upload(s, fault) ==
  LET r == slot[s] IN
  /\ r.op = "upload" /\ r.pc = "call"
  /\ IF fault
     THEN /\ slot' = [slot EXCEPT ![s] =
                [r EXCEPT !.pc = "ret", !.err = "NetworkingError", !.fresh = TRUE]]
          /\ UNCHANGED <<bucket, delAcked>>
     ELSE /\ bucket' = [bucket EXCEPT ![r.key] = Object(r.file.buffer, r.file.mimetype, clock)]
          /\ slot' = [t \in Slots |->
                IF t = s THEN [r EXCEPT !.pc = "ret", !.etag = ETag(r.file.buffer), !.fresh = TRUE]
                ELSE AfterPut(slot[t], r.key)]
          /\ delAcked' = [delAcked EXCEPT ![r.key] = FALSE]
  /\ UNCHANGED <<nOther, clock, up, resp, started, acked>>

\* Continuation after the await: res.json(...) or the catch block.
UploadRespond(s) ==
  LET r == slot[s] IN
  /\ r.op = "upload" /\ r.pc = "ret"
  /\ resp' = Respond(r, StorageStatus(r.err), Message(r.err))
  /\ acked' = IF StorageStatus(r.err) = 200 /\ r.fresh
              THEN [acked EXCEPT ![r.key] = @ \cup {r.file.buffer}] ELSE acked
  /\ slot' = [slot EXCEPT ![s] = Idle]
  /\ UNCHANGED <<bucket, nOther, clock, up, started, delAcked>>

\* -------------------------------------------------------- GET /api/files
ListHandler(s) ==
  /\ CanStart(s)
  /\ started' = started + 1
  /\ slot' = [slot EXCEPT ![s] =
        [Idle EXCEPT !.op = "list", !.pc = "call", !.calls = 1, !.expect = acked]]
  /\ UNCHANGED <<bucket, nOther, clock, up, resp, acked, delAcked>>

\* listObjectsV2 with MaxKeys: the first MAX_KEYS keys of the bucket in key
\* order; the nOther older objects come first.
Listed(b, others) ==
  {k \in Present(b) : others + Cardinality({j \in Present(b) : KeyLess(j, k)}) < MAX_KEYS}

ListCount(b, others) ==
  IF others >= MAX_KEYS THEN MAX_KEYS ELSE others + Cardinality(Listed(b, others))

S3List(s, fault) ==
  LET r == slot[s] IN
  /\ r.op = "list" /\ r.pc = "call"
  /\ slot' = [slot EXCEPT ![s] =
        IF fault THEN [r EXCEPT !.pc = "ret", !.err = "NetworkingError"]
        ELSE [r EXCEPT !.pc = "ret",
                       !.files = {Entry(k, bucket[k]) : k \in Listed(bucket, nOther)},
                       !.count = ListCount(bucket, nOther)]]
  /\ UNCHANGED <<bucket, nOther, clock, up, resp, started, acked, delAcked>>

ListRespond(s) ==
  LET r == slot[s] IN
  /\ r.op = "list" /\ r.pc = "ret"
  /\ resp' = Respond(r, StorageStatus(r.err), Message(r.err))
  /\ slot' = [slot EXCEPT ![s] = Idle]
  /\ UNCHANGED <<bucket, nOther, clock, up, started, acked, delAcked>>

\* ------------------------------------------------ GET /api/download/:key
DownloadHandler(s, k) ==
  /\ CanStart(s)
  /\ started' = started + 1
  /\ slot' = [slot EXCEPT ![s] =
        [Idle EXCEPT !.op = "download", !.pc = "call", !.calls = 1, !.key = k,
                     !.expect = [NoExpect EXCEPT ![k] = acked[k]],
                     !.fresh = delAcked[k]]]
  /\ UNCHANGED <<bucket, nOther, clock, up, resp, acked, delAcked>>

S3Head(s, fault) ==
  LET r == slot[s] IN
  /\ r.op = "download" /\ r.pc = "call"
  /\ slot' = [slot EXCEPT ![s] =
        [r EXCEPT !.pc = "ret",
                  !.err = IF fault THEN "NetworkingError"
                          ELSE IF bucket[r.key] = Absent THEN "NotFound" ELSE "none"]]
  /\ UNCHANGED <<bucket, nOther, clock, up, resp, started, acked, delAcked>>

\* Variant: the probe's error rethrown without looking at its code.
ProbeStatusNoCode(err) == 500

\* `if (headError.code === 'NotFound') return res.status(404)...; throw headError`
ProbeStatus(err) == IF err = "NotFound" THEN 404 ELSE 500

\* Continuation after `await s3.headObject`: 404, rethrow into the outer
\* catch (500), or getObject(...).createReadStream() piped into the response.
DownloadAfterHead(s) ==
  LET r == slot[s] IN
  /\ r.op = "download" /\ r.pc = "ret"
  /\ IF r.err # "none"
     THEN /\ resp' = Respond(r, ProbeStatus(r.err),
                        IF ProbeStatus(r.err) = 404 THEN "File not found" ELSE Message(r.err))
          /\ slot' = [slot EXCEPT ![s] = Idle]
     ELSE /\ slot' = [slot EXCEPT ![s] = [r EXCEPT !.pc = "call2", !.calls = 2]]
          /\ resp' = resp
  /\ UNCHANGED <<bucket, nOther, clock, up, started, acked, delAcked>>

\* The storage service answers the GET: the whole body, an error before any
\* byte ("NoSuchKey", or a transport fault), or a fault after some bytes.
S3GetObject(s, fault, midway) ==
  LET r == slot[s]
      o == bucket[r.key] IN
  /\ r.op = "download" /\ r.pc = "call2"
  /\ slot' = [slot EXCEPT ![s] =
        IF o = Absent /\ ~fault THEN [r EXCEPT !.pc = "ret2", !.err = "NoSuchKey"]
        ELSE IF fault /\ midway /\ o # Absent /\ o.body.len > 1
        THEN [r EXCEPT !.pc = "ret2", !.err = "NetworkingError", !.status = 200,
                       !.bytes = Buffer(o.body.fill, o.body.len - 1)]
        ELSE IF fault THEN [r EXCEPT !.pc = "ret2", !.err = "NetworkingError"]
        ELSE [r EXCEPT !.pc = "ret2", !.status = 200, !.bytes = o.body]]
  /\ UNCHANGED <<bucket, nOther, clock, up, resp, started, acked, delAcked>>

\* The read stream ends or emits 'error'.  'end' ends the response.  Nothing
\* listens for 'error' on the stream and the try/catch is long gone: the
\* emit throws, the process dies with every request it was serving.
StreamEnd(s) ==
  LET r == slot[s] IN
  /\ r.op = "download" /\ r.pc = "ret2"
  /\ IF r.err = "none"
     THEN /\ resp' = [r EXCEPT !.pc = "done", !.ended = TRUE]
          /\ slot' = [slot EXCEPT ![s] = Idle]
          /\ up' = up
     ELSE /\ resp' = [r EXCEPT !.pc = "done"]
          /\ slot' = [t \in Slots |-> Idle]
          /\ up' = FALSE
  /\ UNCHANGED <<bucket, nOther, clock, started, acked, delAcked>>

\* ------------------------------------------------ GET /api/file-url/:key
UrlHandler(s, k, q) ==
  /\ CanStart(s)
  /\ started' = started + 1
  /\ slot' = [slot EXCEPT ![s] =
        [Idle EXCEPT !.op = "url", !.pc = "call", !.calls = 1, !.key = k,
                     !.query = q, !.expiration = Expiration(q)]]
  /\ UNCHANGED <<bucket, nOther, clock, up, resp, acked, delAcked>>

S3Sign(s, fault) ==
  LET r == slot[s] IN
  /\ r.op = "url" /\ r.pc = "call"
  /\ slot' = [slot EXCEPT ![s] =
        IF fault THEN [r EXCEPT !.pc = "ret", !.err = "NetworkingError"]
        ELSE [r EXCEPT !.pc = "ret", !.url = <<"signed", r.key, r.expiration>>]]
  /\ UNCHANGED <<bucket, nOther, clock, up, resp, started, acked, delAcked>>

UrlRespond(s) ==
  LET r == slot[s] IN
  /\ r.op = "url" /\ r.pc = "ret"
  /\ resp' = Respond(r, StorageStatus(r.err), Message(r.err))
  /\ slot' = [slot EXCEPT ![s] = Idle]
  /\ UNCHANGED <<bucket, nOther, clock, up, started, acked, delAcked>>

\* -------------------------------------------- DELETE /api/delete/:key
DeleteHandler(s, k) ==
  /\ CanStart(s)
  /\ started' = started + 1
  /\ slot' = [slot EXCEPT ![s] =
        [Idle EXCEPT !.op = "delete", !.pc = "call", !.calls = 1, !.key = k]]
  /\ UNCHANGED <<bucket, nOther, clock, up, resp, acked, delAcked>>

\* deleteObject removes the key; a key that is not there is no error.
S3Delete(s, fault) ==
  LET r == slot[s] IN
  /\ r.op = "delete" /\ r.pc = "call"
  /\ IF fault
     THEN /\ slot' = [slot EXCEPT ![s] =
                [r EXCEPT !.pc = "ret", !.err = "NetworkingError", !.fresh = TRUE,
                          !.existed = bucket[r.key] # Absent]]
          /\ UNCHANGED <<bucket, acked>>
     ELSE /\ bucket' = [bucket EXCEPT ![r.key] = Absent]
          /\ slot' = [t \in Slots |->
                IF t = s THEN [r EXCEPT !.pc = "ret", !.fresh = TRUE,
                                        !.existed = bucket[r.key] # Absent]
                ELSE AfterDelete(slot[t], r.key)]
          /\ acked' = [acked EXCEPT ![r.key] = {}]
  /\ UNCHANGED <<nOther, clock, up, resp, started, delAcked>>

\* Variant: an existence probe before the delete, as the download route has.
DeleteStatusProbed(r) == IF ~r.existed THEN 404 ELSE IF r.err = "none" THEN 200 ELSE 500

\* No probe before the delete: the answer depends on the call's error alone.
DeleteStatus(r) == IF r.err = "none" THEN 200 ELSE 500

DeleteRespond(s) ==
  LET r == slot[s] IN
  /\ r.op = "delete" /\ r.pc = "ret"
  /\ resp' = Respond(r, DeleteStatus(r), Message(r.err))
  /\ delAcked' = IF DeleteStatus(r) = 200 /\ r.fresh
                 THEN [delAcked EXCEPT ![r.key] = TRUE] ELSE delAcked
  /\ slot' = [slot EXCEPT ![s] = Idle]
  /\ UNCHANGED <<bucket, nOther, clock, up, started, acked>>

\* ----------------------------------------------------- GET /api/health
Health(s) ==
  /\ CanStart(s)
  /\ started' = started + 1
  /\ resp' = [Respond([Idle EXCEPT !.op = "health"], 200, "") EXCEPT !.timestamp = clock]
  /\ UNCHANGED <<bucket, nOther, clock, up, slot, acked, delAcked>>

\* ------------------------------------------------------- environment
\* Date.now() moves on.
Tick ==
  /\ clock < MaxClock
  /\ clock' = clock + 1
  /\ UNCHANGED <<bucket, nOther, up, slot, resp, started, acked, delAcked>>

\* app.listen: the host starts the process again.
Listen ==
  /\ ~up
  /\ up' = TRUE
  /\ UNCHANGED <<bucket, nOther, clock, slot, resp, started, acked, delAcked>>

Next ==
  \/ \E s \in Slots, f \in Files \cup {NoFile}, atLimit \in BOOLEAN : UploadHandler(s, f, atLimit)
  \/ \E s \in Slots, fault \in BOOLEAN : S3Upload(s, fault)
  \/ \E s \in Slots : UploadRespond(s)
  \/ \E s \in Slots : ListHandler(s)
  \/ \E s \in Slots, fault \in BOOLEAN : S3List(s, fault)
  \/ \E s \in Slots : ListRespond(s)
  \/ \E s \in Slots, k \in Keys : DownloadHandler(s, k)
  \/ \E s \in Slots, fault \in BOOLEAN : S3Head(s, fault)
  \/ \E s \in Slots : DownloadAfterHead(s)
  \/ \E s \in Slots, fault, midway \in BOOLEAN : S3GetObject(s, fault, midway)
  \/ \E s \in Slots : StreamEnd(s)
  \/ \E s \in Slots, k \in Keys, q \in CoreQueries : UrlHandler(s, k, q)
  \/ \E s \in Slots, fault \in BOOLEAN : S3Sign(s, fault)
  \/ \E s \in Slots : UrlRespond(s)
  \/ \E s \in Slots, k \in Keys : DeleteHandler(s, k)
  \/ \E s \in Slots, fault \in BOOLEAN : S3Delete(s, fault)
  \/ \E s \in Slots : DeleteRespond(s)
  \/ \E s \in Slots : Health(s)
  \/ Tick
  \/ Listen

Spec == Init /\ [][Next]_vars

\* The signed-URL route on its own, over every query string of Queries.
NextUrl ==
  \/ \E s \in Slots, k \in Keys, q \in Queries : UrlHandler(s, k, q)
  \/ \E s \in Slots, fault \in BOOLEAN : S3Sign(s, fault)
  \/ \E s \in Slots : UrlRespond(s)

SpecUrl == Init /\ [][NextUrl]_vars

\* ================================================================ claims
Done(op) == resp.op = op /\ resp.pc = "done"

\* C1: a download of a key that the storage service reports missing, at the
\* probe or at the retrieval after a concurrent delete, is answered 404.
C1_MissingKeyIs404 ==
  Done("download") /\ resp.err \in {"NotFound", "NoSuchKey"} => resp.status = 404

\* C2: a request one of whose storage calls failed (not-found at the download
\* probe aside) ends as a terminated 500 response carrying the error message.
C2_StorageFailureIs500 ==
  resp.pc = "done" /\ resp.err \notin {"none", "NotFound"} =>
    resp.status = 500 /\ resp.ended /\ resp.details = Message(resp.err)

\* C3: a download that starts after an upload of bytes B was answered with
\* key K, with no delete of K since, and that the storage service answers,
\* returns exactly B.
C3_DownloadReturnsUploaded ==
  Done("download") /\ resp.err \in {"none", "NotFound", "NoSuchKey"} =>
    \A b \in resp.expect[resp.key] :
      resp.status = 200 /\ resp.ended /\ resp.bytes = b

\* C4: a list answered with success holds, for every upload answered before
\* the list started and not deleted since, an entry with its key and size.
C4_ListHoldsUploaded ==
  Done("list") /\ resp.status = 200 =>
    \A k \in Keys : \A b \in resp.expect[k] :
      \E e \in resp.files : e.key = k /\ e.size = b.len

IsDecimal(q) ==
  LET d == IF q # <<>> /\ Head(q) = "-" THEN Tail(q) ELSE q
  IN d # <<>> /\ \A i \in 1..Len(d) : d[i] \in Digits

RECURSIVE Magnitude(_)
Magnitude(d) ==
  IF d = <<>> THEN 0 ELSE 10 * Magnitude(SubSeq(d, 1, Len(d) - 1)) + DigitVal(d[Len(d)])

DecimalValue(q) == IF Head(q) = "-" THEN -Magnitude(Tail(q)) ELSE Magnitude(q)

\* C6: the expiry signed into the URL and returned as `expires` is 3600 when
\* the parameter is omitted and the supplied integer for every integer.
C6_ExpiresIsSupplied ==
  Done("url") /\ resp.status = 200 =>
    /\ resp.url[3] = resp.expiration
    /\ resp.query = NoQuery => resp.expiration = DEFAULT_EXPIRES
    /\ IsDecimal(resp.query) => resp.expiration = DecimalValue(resp.query)

\* C7: a download of K that starts after a delete of K was answered with
\* success, with no put of K since that delete, never finds the key: it makes
\* the probe only, writes no bytes, and is answered 404 (500 only when the
\* probe itself failed in transport).
C7_DeletedKeyIs404 ==
  Done("download") /\ resp.fresh =>
    /\ resp.calls = 1 /\ resp.bytes = NoBuffer /\ resp.ended
    /\ resp.err \in {"NotFound", "NetworkingError"}
    /\ resp.err = "NotFound" => resp.status = 404
    /\ resp.err = "NetworkingError" => resp.status = 500

C7_Witness ==
  Done("download") /\ resp.fresh /\ resp.status = 404 /\ delAcked[resp.key]

\* C8: the step that handles an upload without a `file` field answers 400,
\* issues no storage call and leaves the bucket as it was; no request in
\* flight to the storage service is an upload without a file.
C8_NoFileIs400 ==
  [][ /\ (started' # started /\ slot' = slot /\ resp'.op = "upload" /\ resp'.file = NoFile) =>
           /\ resp'.status = 400 /\ resp'.details = "No file provided"
           /\ resp'.calls = 0
           /\ bucket' = bucket
      /\ \A s \in Slots : slot'[s].op = "upload" => slot'[s].file # NoFile ]_vars

C8_Witness ==
  Done("upload") /\ resp.file = NoFile /\ resp.status = 400

\* C9: a delete makes its one storage call without probing and is answered
\* with success whenever that call succeeds, whether or not the key was
\* there; every key whose delete was answered (no put since) is absent.
C9_DeleteIdempotent ==
  /\ Done("delete") =>
        /\ resp.calls = 1
        /\ resp.status = (IF resp.err = "none" THEN 200 ELSE 500)
  /\ \A k \in Keys : delAcked[k] => bucket[k] = Absent

C9_Witness ==
  Done("delete") /\ resp.status = 200 /\ ~resp.existed /\ bucket[resp.key] = Absent

\* C10: no step changes the bytes, size or content type stored under a key,
\* other than a step that removes the key.
C10_ObjectImmutable ==
  [][ \A k \in Keys :
        bucket[k] # Absent /\ bucket'[k] # Absent =>
          /\ bucket'[k].body = bucket[k].body
          /\ bucket'[k].contentType = bucket[k].contentType ]_vars

====
